---- MODULE Spec2Model ----
(***************************************************************************)
(* Model of the authentication, password-reset and webhook slice of the    *)
(* dashboard server (src/server/routes.ts, src/server/storage.ts,          *)
(* src/shared/schema.ts).                                                  *)
(*                                                                         *)
(* One HTTP request is handled per step.  req is the request handled by    *)
(* the step that led to the current state, handlerOut what the route       *)
(* handler passed to res.json, res what the client received, dispatch the  *)
(* webhook call launched by the response wrapper, lookup the token the     *)
(* step handed to getUserByResetToken.  A clock step handles no request    *)
(* and leaves these idle.  Where the order of the awaits of a handler      *)
(* matters, the handler is followed await by await: inflight holds the     *)
(* position and the locals of each suspended handler.                      *)
(*                                                                         *)
(* User columns that no route logic reads (name, celular, role, status,    *)
(* createdAt) are left out of the user record.                             *)
(***************************************************************************)
EXTENDS Integers, Sequences, FiniteSets, TLC

VARIABLES
    users,          \* the users table: id -> row
    nextId,         \* next id gen_random_uuid() hands out
    sessions,       \* session store: session id -> userId of the session
    avatarFiles,    \* avatar files on disk
    now,            \* the clock, in ms
    nextToken,      \* index of the next value crypto.randomBytes returns
    emailConfigured,\* isEmailConfigured()
    webhookUrl,     \* process.env.GLOBAL_WEBHOOK_URL
    req,            \* request handled by the last step
    handlerOut,     \* status and data the route handler gave to res.json
    res,            \* response received by the client
    dispatch,       \* webhook call launched for the last response
    mail,           \* reset mail the last step handed to sendPasswordResetEmail
    consumed,       \* history: tokens a reset-password replaced a password with
    inflight,       \* handlers suspended at an await: client -> position and locals
    lookup          \* token the last step handed to getUserByResetToken

vars == <<users, nextId, sessions, avatarFiles, now, nextToken, emailConfigured,
          webhookUrl, req, handlerOut, res, dispatch, mail, consumed, inflight, lookup>>

-----------------------------------------------------------------------------
(* Bounds of the model *)

MaxUsers == 1
MaxTokens == 2
MaxHours == 1
MaxSegments == 3
MaxCreated == 1     \* users created by POST /api/users while requests race

(* Program constants *)

ResetTokenTTL == 60 * 60 * 1000
TokenLen == 64
MinPasswordLen == 6
BcryptCost == 10
UuidLen == 36

-----------------------------------------------------------------------------
(* Optional values: null/undefined is None, a present value v is Some(v) *)

None == << >>
Some(v) == <<v>>

(* Strings the requests are drawn from.  StrLen is String.length on them. *)

Emails == {"a@b.com", "c@d.com", "not-an-email"}
Passwords == {"secret1", "newpass1", "short"}
ExternalIds == {"ext-1"}
SIDs == {"s1"}
UserIds == 1..MaxUsers

StrLen(s) ==
    CASE s = "secret1" -> 7
      [] s = "newpass1" -> 8
      [] s = "short" -> 5
      [] OTHER -> 0

\* z.string().email()
IsEmail(s) == s \in {"a@b.com", "c@d.com"}

(* Tokens are strings of characters, written run by run: <<c, n>> is the   *)
(* character c repeated n times.  Characters 0..15 are the hex digits, 16  *)
(* is a character that is no hex digit.                                    *)

RECURSIVE TokenLength(_)
TokenLength(t) == IF t = << >> THEN 0 ELSE Head(t)[2] + TokenLength(Tail(t))

GenToken(k) == << <<k % 16, TokenLen>> >>
UnknownHexToken == << <<15, TokenLen>> >>
NonHexToken == << <<16, TokenLen>> >>
ShortToken == << <<1, 3>> >>
EmptyToken == << >>

RequestTokens ==
    {GenToken(k) : k \in 0..(MaxTokens - 1)}
        \cup {UnknownHexToken, ShortToken, EmptyToken}

\* bcrypt.hash(plain, 10) and bcrypt.compare(plain, digest)
Hash(plain) == [alg |-> "bcrypt", cost |-> BcryptCost, of |-> plain]

\* a comparison that accepts every password
CompareAcceptsAll(plain, digest) == TRUE

Compare(plain, digest) == digest = Hash(plain)

-----------------------------------------------------------------------------
(* The repository (DatabaseStorage) *)

SensitiveFields == {"password", "resetToken", "resetTokenExpiry"}

\* a helper that strips the token columns and forgets the password
excludeTokensOnly(user) ==
    [f \in (DOMAIN user) \ {"resetToken", "resetTokenExpiry"} |-> user[f]]

excludePassword(user) ==
    [f \in (DOMAIN user) \ SensitiveFields |-> user[f]]

\* a lookup that finds nobody
getUserByEmailFindsNone(table, email) == None

getUserByEmail(table, email) ==
    LET found == {id \in DOMAIN table : table[id].email = email}
    IN  IF found = {} THEN None ELSE Some(table[CHOOSE id \in found : TRUE])

getUser(table, id) ==
    IF id \in DOMAIN table THEN Some(excludePassword(table[id])) ELSE None

getAllUsers(table) == {excludePassword(table[id]) : id \in DOMAIN table}

NewRow(id, data, clock) ==
    [id |-> id, email |-> data.email, password |-> data.password,
     externalId |-> data.externalId, avatar |-> None,
     lastActive |-> clock,
     resetToken |-> IF "resetToken" \in DOMAIN data THEN data.resetToken ELSE None,
     resetTokenExpiry |->
        IF "resetTokenExpiry" \in DOMAIN data THEN data.resetTokenExpiry ELSE None]

\* the unique index on email and the partial unique index on external_id
InsertViolatesUnique(table, data) ==
    \E id \in DOMAIN table :
        \/ table[id].email = data.email
        \/ data.externalId # None /\ table[id].externalId = data.externalId

createUser(table, id, data, clock) ==
    [i \in (DOMAIN table) \cup {id} |->
        IF i = id THEN NewRow(id, data, clock) ELSE table[i]]

ApplyPatch(row, data) ==
    [f \in DOMAIN row |-> IF f \in DOMAIN data THEN data[f] ELSE row[f]]

UpdateViolatesUnique(table, id, data) ==
    \E other \in (DOMAIN table) \ {id} :
        \/ "email" \in DOMAIN data /\ table[other].email = data.email
        \/ /\ "externalId" \in DOMAIN data
           /\ data.externalId # None
           /\ table[other].externalId = data.externalId

updateUser(table, id, data) ==
    [i \in DOMAIN table |-> IF i = id THEN ApplyPatch(table[i], data) ELSE table[i]]

deleteUser(table, id) == [i \in (DOMAIN table) \ {id} |-> table[i]]

updateLastActive(table, id, clock) ==
    [i \in DOMAIN table |->
        IF i = id THEN [table[i] EXCEPT !.lastActive = clock] ELSE table[i]]

\* an update that leaves a token already stored in place
setResetTokenKeepFirst(table, email, token, expiry) ==
    [i \in DOMAIN table |->
        IF table[i].email = email /\ table[i].resetToken = None
        THEN [table[i] EXCEPT !.resetToken = Some(token),
                              !.resetTokenExpiry = Some(expiry)]
        ELSE table[i]]

\* an update that stores the token and forgets its expiry
setResetTokenNoExpiry(table, email, token, expiry) ==
    [i \in DOMAIN table |->
        IF table[i].email = email
        THEN [table[i] EXCEPT !.resetToken = Some(token)]
        ELSE table[i]]

setResetToken(table, email, token, expiry) ==
    [i \in DOMAIN table |->
        IF table[i].email = email
        THEN [table[i] EXCEPT !.resetToken = Some(token),
                              !.resetTokenExpiry = Some(expiry)]
        ELSE table[i]]

\* the rows the query selects; limit(1) returns any one of them
RowsByResetToken(table, token) ==
    {id \in DOMAIN table : table[id].resetToken = Some(token)}

\* an update that clears nothing
clearResetTokenKeepsToken(table, userId) == table

clearResetToken(table, userId) ==
    [i \in DOMAIN table |->
        IF i = userId
        THEN [table[i] EXCEPT !.resetToken = None, !.resetTokenExpiry = None]
        ELSE table[i]]

updatePassword(table, userId, hashedPassword) ==
    [i \in DOMAIN table |->
        IF i = userId THEN [table[i] EXCEPT !.password = hashedPassword]
        ELSE table[i]]

isExternalIdUnique(table, externalId, excludeUserId) ==
    LET found == {id \in DOMAIN table : table[id].externalId = Some(externalId)}
    IN  \/ found = {}
        \/ excludeUserId # None /\ (CHOOSE id \in found : TRUE) = excludeUserId[1]

-----------------------------------------------------------------------------
(* Avatar files (upload module) *)

AvatarUrl(userId) == <<"/api/avatars", userId>>

deleteAvatarFile(files, avatar) ==
    IF avatar = None THEN files ELSE files \ {avatar[1]}

-----------------------------------------------------------------------------
(* Request validation (shared/schema.ts) *)

\* insertUserSchema: email is any string, password has at least 6 characters
insertUserSchema(data) == StrLen(data.password) >= MinPasswordLen

\* what parse returns: a zod object drops the keys its schema does not name
StripUnknown(data, keys) == [f \in (DOMAIN data) \cap keys |-> data[f]]

\* the columns insertUserSchema keeps: id, createdAt, lastActive, resetToken
\* and resetTokenExpiry are omitted
InsertUserKeys == {"email", "password", "externalId"}

insertUserParsed(data) == StripUnknown(data, InsertUserKeys)

\* a schema that hands the body on as it came
updateUserSchemaPassthrough(data) == data

\* updateUserSchema: insertUserSchema, every key optional, without password
updateUserSchema(data) == StripUnknown(data, InsertUserKeys \ {"password"})

\* loginSchema: email is an email address, password has at least 6 characters
loginSchema(data) == IsEmail(data.email) /\ StrLen(data.password) >= MinPasswordLen

\* resetPasswordSchema: email is an email address
resetPasswordSchema(data) == IsEmail(data.email)

\* newPasswordSchema: token is a string, password has at least 6 characters
newPasswordSchema(data) ==
    data.token # None /\ StrLen(data.password) >= MinPasswordLen

-----------------------------------------------------------------------------
(* Responses *)

Idle == [op |-> "idle"]
NoResponse == [status |-> 0, body |-> [nothing |-> TRUE]]
NoDispatch == [state |-> "none"]

Json(status, body) == [status |-> status, body |-> body]

ZodError == Json(400, [error |-> "Validation error"])
Unauthorized == Json(401, [error |-> "Nao autorizado"])
UserNotFound == Json(404, [error |-> "Usuario nao encontrado"])
EmailTaken == Json(400, [error |-> "Email ja cadastrado"])
ExternalIdTaken == Json(400, [error |-> "ID externo ja esta em uso"])
BadCredentials == Json(401, [error |-> "Email ou senha invalidos"])
TokenInvalid == Json(400, [error |-> "Token invalido"])

\* a reply that reports success for a token of no user
TokenOfNobodyAccepted ==
    Json(200, [success |-> TRUE, message |-> "Senha redefinida com sucesso"])

TokenInvalidOrExpired == Json(400, [error |-> "Token invalido ou expirado"])
TokenExpiredReply == Json(400, [error |-> "Token expirado"])
ResetDone == Json(200, [success |-> TRUE, message |-> "Senha redefinida com sucesso"])
GenericForgotReply ==
    Json(200, [success |-> TRUE,
               message |-> "Se o email existir, voce recebera instrucoes de recuperacao."])
ServerError(message) == Json(500, [error |-> message])

\* a reply that tells the caller the account does not exist
ForgotPasswordReplyLeaky(user) ==
    IF user = None THEN UserNotFound ELSE GenericForgotReply

\* the reply forgot-password sends once the lookup by email has returned
ForgotPasswordReply(user) == GenericForgotReply

\* the user object login returns: the row without its password
loginUserBody(user) == [f \in (DOMAIN user) \ {"password"} |-> user[f]]

\* a gate that lets every request through
requireAuthOpen(store, sid) == TRUE

\* requireAuth: the session maps to a user
requireAuth(store, sid) == store[sid] # None

-----------------------------------------------------------------------------
(* The webhook dispatcher *)

FetchOutcomes == {"delivered", "failed", "pending"}

\* a dispatcher that posts to a built-in address when none is configured
dispatchWebhookDefaultTarget(url, payload, outcome) ==
    [state |-> outcome,
     url |-> IF url = None THEN "http://localhost/webhook" ELSE url[1],
     payload |-> payload]

\* dispatchWebhook: no call without a target; a failing call is only logged
dispatchWebhook(url, payload, outcome) ==
    IF url = None
    THEN [state |-> "not-configured"]
    ELSE [state |-> outcome, url |-> url[1], payload |-> payload]

(* Event names.  A path is the sequence of its segments, the text between  *)
(* its slashes; a segment is a sequence of pieces, each a run of           *)
(* characters of one class: "digits" (0-9), "hex" (a-f, 0-9 and '-', not   *)
(* all digits) or "word" (letters, shorter than a UUID and starting with   *)
(* no digit).  An event name is the sequence of the texts between its dots *)
(* and the suffix appended after them.                                     *)

Word(text, n) == << [cls |-> "word", n |-> n, text |-> text] >>
Digits(n) == << [cls |-> "digits", n |-> n, text |-> "0-9"] >>
HexDash(n) == << [cls |-> "hex", n |-> n, text |-> "a-f0-9-"] >>

RECURSIVE SegLen(_)
SegLen(seg) == IF seg = << >> THEN 0 ELSE Head(seg).n + SegLen(Tail(seg))

\* the segment matches ^[a-f0-9-]{36}$
IsHexDash36(seg) ==
    /\ SegLen(seg) = UuidLen
    /\ \A i \in DOMAIN seg : seg[i].cls \in {"hex", "digits"}

\* the segment matches ^\d+$
IsDigits(seg) ==
    /\ seg # << >>
    /\ \A i \in DOMAIN seg : seg[i].cls = "digits"

\* replace(/^\/api\//, ""): what is left starts with no slash
StripApiPrefix(path) ==
    IF Len(path) >= 2 /\ path[1] = Word("api", 3) THEN Tail(path) ELSE << << >> >> \o path

\* replace of a pattern "/" + segment + "$": the last segment goes with its
\* slash; the first segment has no slash before it and is never matched
DropLastIf(segs, matches) ==
    IF Len(segs) >= 2 /\ matches THEN SubSeq(segs, 1, Len(segs) - 1) ELSE segs

\* getEventName of the dispatcher with geolocation: identifiers are removed
\* at the end of the path only
getEventName(method, path) ==
    LET s1 == StripApiPrefix(path)
        s2 == DropLastIf(s1, IsHexDash36(s1[Len(s1)]))
        s3 == DropLastIf(s2, IsDigits(s2[Len(s2)]))
        s4 == DropLastIf(s3, s3[Len(s3)] = << >>)
    IN  [name |-> s4, suffix |-> ""]

\* replace(/\/[a-f0-9-]{36}/g, "") and replace(/\/\d+/g, ""): a slash and
\* the matching start of its segment go, the rest of the segment joins the
\* segment before it
RECURSIVE StripStarts(_, _, _)
StripStarts(done, segs, cls) ==
    IF segs = << >> THEN done
    ELSE LET seg == Head(segs)
             hit == IF cls = "digits"
                    THEN seg # << >> /\ seg[1].cls = "digits"
                    ELSE IsHexDash36(seg)
             rest == IF cls = "digits" THEN Tail(seg) ELSE << >>
         IN  IF hit
             THEN StripStarts([done EXCEPT ![Len(done)] = @ \o rest], Tail(segs), cls)
             ELSE StripStarts(Append(done, seg), Tail(segs), cls)

SessionWords == {"login", "register", "logout"}

\* methodMap and the ".create" rule of POST
MethodSuffix(method, segs) ==
    IF /\ method = "POST"
       /\ \A i \in DOMAIN segs : \A j \in DOMAIN segs[i] :
              segs[i][j].text \notin SessionWords
    THEN ".create"
    ELSE CASE method \in {"PUT", "PATCH"} -> ".update"
           [] method = "DELETE" -> ".delete"
           [] OTHER -> ""

\* getEventName of the dispatcher without geolocation
getEventNameWithSuffix(method, path) ==
    LET s1 == StripApiPrefix(path)
        s2 == StripStarts(<<Head(s1)>>, Tail(s1), "hex")
        s3 == StripStarts(<<Head(s2)>>, Tail(s2), "digits")
        s4 == DropLastIf(s3, s3[Len(s3)] = << >>)
    IN  [name |-> s4, suffix |-> MethodSuffix(method, s4)]

\* the two dispatcher modules of the source; one of them is mounted
DispatcherVersions == {"geolocation", "method-suffix"}

allowedMethods == {"GET", "POST", "PUT", "PATCH", "DELETE"}

\* startsWith("/api/"): the first segment is api and a slash follows it
StartsWithApi(path) == Len(path) >= 2 /\ path[1] = Word("api", 3)

\* includes("/socket.io"): the text after some slash begins with socket.io
IncludesSocketIo(path) ==
    \E i \in DOMAIN path : path[i] # << >> /\ path[i][1].text = "socket.io"

EventName(version, method, path) ==
    IF version = "geolocation"
    THEN getEventName(method, path)
    ELSE getEventNameWithSuffix(method, path)

\* a wrapper that awaits the call before it answers: no answer while the
\* call is pending
WrappedJsonJoined(out, launched) ==
    IF launched.state = "pending" THEN NoResponse ELSE out

\* a wrapper that answers with the delivery error when the call fails
WrappedJsonRaising(out, launched) ==
    IF launched.state = "failed"
    THEN Json(502, [error |-> "Webhook dispatch error"])
    ELSE out

\* the wrapper webhookDispatcher installs over res.json: it launches the
\* call and hands the handler's data to the original res.json
WrappedJson(out, launched) == out

\* What every route does when it calls res.json: q is the request, out the
\* status and data of the handler, store the session store at that moment,
\* sentMail the reset mail the handler goes on to send.
Respond(q, out, store, sentMail) ==
    /\ req' = q
    /\ mail' = sentMail
    /\ handlerOut' = out
    /\ \E outcome \in FetchOutcomes :
          LET launched ==
                dispatchWebhook(webhookUrl,
                                [request |-> q, userId |-> store[q.sid]], outcome)
          IN  /\ dispatch' = launched
              /\ res' = WrappedJson(out, launched)

\* res.json of a step that made no lookup by token
Reply(q, out, store, sentMail) == Respond(q, out, store, sentMail) /\ lookup' = None

Send(q, out, store) == Reply(q, out, store, None)

\* res.json after getUserByResetToken(token) has returned
SendAfterLookup(q, out, store, token) ==
    Respond(q, out, store, None) /\ lookup' = Some(token)

\* a request that every method and path makes eligible
EligibleEverywhere(method, path) == TRUE

\* the tests webhookDispatcher makes before it wraps res.json
Eligible(method, path) ==
    /\ method \in allowedMethods
    /\ StartsWithApi(path)
    /\ ~IncludesSocketIo(path)

\* { ...f, ...g }: the keys of g win
Spread(f, g) ==
    [k \in DOMAIN f \cup DOMAIN g |-> IF k \in DOMAIN g THEN g[k] ELSE f[k]]

\* const { key: _, ...rest } = f
Without(f, key) == [k \in DOMAIN f \ {key} |-> f[k]]

NoFields == << >>

\* parseGeolocation; a parsed _geo is referred to by its text
parseGeolocation(body, query) ==
    IF "geolocation" \in DOMAIN body THEN Some(body.geolocation)
    ELSE IF "_geo" \in DOMAIN query THEN Some(query._geo)
    ELSE None

\* req.params of the route that matches the path
RouteParams(path) ==
    IF Len(path) >= 3 /\ path[2] = Word("users", 5)
    THEN [id |-> path[3]]
    ELSE IF /\ Len(path) = 4
            /\ path[2] = Word("auth", 4)
            /\ path[3] = Word("validate-token", 14)
    THEN [token |-> path[4]]
    ELSE NoFields

\* the object literal of the payload: a later key replaces an earlier one
WebhookPayload(q, userId, timestamp) ==
    LET event == [event |-> EventName(q.version, q.method, q.path)]
        last == [userId |-> userId, timestamp |-> timestamp]
        params == RouteParams(q.path)
    IN  IF q.version = "geolocation"
        THEN Spread(Spread(Spread(Spread(Spread(event,
                 Without(q.body, "geolocation")),
                 Without(q.query, "_geo")),
                 params),
                 [geolocation |-> parseGeolocation(q.body, q.query)]),
                 last)
        ELSE Spread(Spread(Spread(Spread(event, q.body), q.query), params), last)

\* res.json of a request the dispatcher wraps, with the payload it assembles
ReplyWithEvent(q, out, store, version) ==
    /\ req' = q
    /\ lookup' = None
    /\ mail' = None
    /\ handlerOut' = out
    /\ \E outcome \in FetchOutcomes :
          LET launched ==
                dispatchWebhook(webhookUrl, WebhookPayload(q, store[q.sid], now),
                                outcome)
          IN  /\ dispatch' = launched
              /\ res' = WrappedJson(out, launched)

\* res.json of a request the dispatcher let through with next()
PlainJson(q, out) ==
    /\ req' = q
    /\ lookup' = None
    /\ mail' = None
    /\ handlerOut' = out
    /\ res' = out
    /\ dispatch' = NoDispatch

\* an expiry test that ignores the clock
TokenNeverExpires(user, clock) == user.resetTokenExpiry = None

\* an expiry test that finds every token expired
TokenAlwaysExpired(user, clock) == TRUE

\* the token is usable no longer: no expiry stored, or the clock is past it
TokenExpired(user, clock) ==
    user.resetTokenExpiry = None \/ clock > user.resetTokenExpiry[1]

\* the concurrent connections whose handlers are followed await by await
Clients == {"c1", "c2"}
NotRunning == [pc |-> "none"]

-----------------------------------------------------------------------------
StoreInit ==
    /\ users = << >>
    /\ nextId = 1
    /\ sessions = [s \in SIDs |-> None]
    /\ avatarFiles = {}
    /\ now = 0
    /\ nextToken = 0
    /\ emailConfigured \in BOOLEAN
    /\ webhookUrl \in {None, Some("https://hooks.example/in")}
    /\ handlerOut = NoResponse
    /\ res = NoResponse
    /\ dispatch = NoDispatch
    /\ mail = None
    /\ consumed = {}
    /\ inflight = [c \in Clients |-> NotRunning]
    /\ lookup = None

Init == StoreInit /\ req = Idle

config == <<emailConfigured, webhookUrl>>
resetHistory == <<nextToken, consumed>>

-----------------------------------------------------------------------------
(* POST /api/auth/register *)
Register(sid, data) ==
    LET q == [op |-> "register", sid |-> sid, body |-> data] IN
    /\ IF ~insertUserSchema(data)
       THEN /\ Send(q, ZodError, sessions)
            /\ UNCHANGED <<users, nextId, sessions>>
       ELSE IF getUserByEmail(users, data.email) # None
       THEN /\ Send(q, EmailTaken, sessions)
            /\ UNCHANGED <<users, nextId, sessions>>
       ELSE LET row == [insertUserParsed(data) EXCEPT !.password = Hash(data.password)] IN
            IF InsertViolatesUnique(users, row)
            THEN /\ Send(q, ServerError("Erro ao cadastrar usuario"), sessions)
                 /\ UNCHANGED <<users, nextId, sessions>>
            ELSE /\ nextId <= MaxUsers
                 /\ users' = createUser(users, nextId, row, now)
                 /\ nextId' = nextId + 1
                 /\ sessions' = [sessions EXCEPT ![sid] = Some(nextId)]
                 /\ Send(q, Json(200, [user |-> excludePassword(users'[nextId])]),
                         sessions')
    /\ UNCHANGED <<avatarFiles, now, config, inflight, resetHistory>>

(* POST /api/auth/login *)
Login(sid, data) ==
    LET q == [op |-> "login", sid |-> sid, body |-> data]
        found == getUserByEmail(users, data.email)
    IN
    /\ IF ~loginSchema(data)
       THEN /\ Send(q, ZodError, sessions)
            /\ UNCHANGED <<users, sessions>>
       ELSE IF found = None
       THEN /\ Send(q, BadCredentials, sessions)
            /\ UNCHANGED <<users, sessions>>
       ELSE IF ~Compare(data.password, found[1].password)
       THEN /\ Send(q, BadCredentials, sessions)
            /\ UNCHANGED <<users, sessions>>
       ELSE /\ users' = updateLastActive(users, found[1].id, now)
            /\ sessions' = [sessions EXCEPT ![sid] = Some(found[1].id)]
            /\ Send(q, Json(200, [user |-> loginUserBody(found[1])]), sessions')
    /\ UNCHANGED <<nextId, avatarFiles, now, config, inflight, resetHistory>>

\* a destroy that leaves the mapping in the store
destroySessionKeepsMapping(store, sid) == store

\* req.session.destroy: the store no longer holds the session
destroySession(store, sid) == [store EXCEPT ![sid] = None]

(* POST /api/auth/logout *)
Logout(sid) ==
    LET q == [op |-> "logout", sid |-> sid] IN
    /\ sessions' = destroySession(sessions, sid)
    /\ Send(q, Json(200, [success |-> TRUE]), sessions')
    /\ UNCHANGED <<users, nextId, avatarFiles, now, config, inflight, resetHistory>>

(* GET /api/auth/me *)
Me(sid) ==
    LET q == [op |-> "me", sid |-> sid] IN
    /\ IF sessions[sid] = None
       THEN Send(q, Unauthorized, sessions)
       ELSE LET found == getUser(users, sessions[sid][1]) IN
            IF found = None
            THEN Send(q, UserNotFound, sessions)
            ELSE Send(q, Json(200, [user |-> found[1]]), sessions)
    /\ UNCHANGED <<users, nextId, sessions, avatarFiles, now, config, inflight, resetHistory>>

(* POST /api/auth/forgot-password *)
MailOutcomes == {"sent", "failed"}

ForgotPassword(sid, data, delivery) ==
    LET q == [op |-> "forgot", sid |-> sid, body |-> data]
        found == getUserByEmail(users, data.email)
    IN
    /\ IF ~resetPasswordSchema(data)
       THEN /\ Send(q, ZodError, sessions)
            /\ UNCHANGED <<users, resetHistory>>
       ELSE IF found = None \/ ~emailConfigured
       THEN /\ Send(q, ForgotPasswordReply(found), sessions)
            /\ UNCHANGED <<users, resetHistory>>
       ELSE LET token == GenToken(nextToken)
                expiry == now + ResetTokenTTL
            IN  /\ nextToken < MaxTokens
                /\ Reply(q, ForgotPasswordReply(found), sessions,
                         Some([to |-> data.email, token |-> token,
                               outcome |-> delivery]))
                /\ nextToken' = nextToken + 1
                /\ users' = setResetToken(users, data.email, token, expiry)
                /\ UNCHANGED consumed
    /\ UNCHANGED <<nextId, sessions, avatarFiles, now, config, inflight>>

(* POST /api/auth/reset-password *)
ResetPassword(sid, data) ==
    LET q == [op |-> "reset", sid |-> sid, body |-> data] IN
    /\ IF ~newPasswordSchema(data)
       THEN /\ Send(q, ZodError, sessions)
            /\ UNCHANGED <<users, consumed>>
       ELSE LET token == data.token[1]
                rows == RowsByResetToken(users, token)
            IN
            IF token = EmptyToken \/ TokenLength(token) # TokenLen
            THEN /\ Send(q, TokenInvalid, sessions)
                 /\ UNCHANGED <<users, consumed>>
            ELSE IF rows = {}
            THEN /\ SendAfterLookup(q, TokenInvalidOrExpired, sessions, token)
                 /\ UNCHANGED <<users, consumed>>
            ELSE \E id \in rows :
                 LET user == users[id] IN
                 IF user.resetToken = None \/ user.resetToken # Some(token)
                 THEN /\ SendAfterLookup(q, TokenInvalid, sessions, token)
                      /\ UNCHANGED <<users, consumed>>
                 ELSE IF TokenExpired(user, now)
                 THEN /\ users' = clearResetToken(users, id)
                      /\ SendAfterLookup(q, TokenExpiredReply, sessions, token)
                      /\ UNCHANGED consumed
                 ELSE /\ users' = clearResetToken(
                                     updatePassword(users, id, Hash(data.password)), id)
                      /\ consumed' = consumed \cup {token}
                      /\ SendAfterLookup(q, ResetDone, sessions, token)
    /\ UNCHANGED <<nextId, sessions, avatarFiles, now, config, inflight, nextToken>>

(* GET /api/auth/validate-token/:token *)
ValidateToken(sid, token) ==
    LET q == [op |-> "validate", sid |-> sid, token |-> token]
        rows == RowsByResetToken(users, token)
    IN
    /\ IF token = EmptyToken \/ TokenLength(token) # TokenLen
       THEN /\ Send(q, Json(200, [valid |-> FALSE]), sessions)
            /\ UNCHANGED users
       ELSE IF rows = {}
       THEN /\ SendAfterLookup(q, Json(200, [valid |-> FALSE]), sessions, token)
            /\ UNCHANGED users
       ELSE \E id \in rows :
            LET user == users[id] IN
            IF user.resetToken = None \/ user.resetToken # Some(token)
            THEN /\ SendAfterLookup(q, Json(200, [valid |-> FALSE]), sessions, token)
                 /\ UNCHANGED users
            ELSE IF TokenExpired(user, now)
            THEN /\ users' = clearResetToken(users, id)
                 /\ SendAfterLookup(q, Json(200, [valid |-> FALSE]), sessions, token)
            ELSE /\ SendAfterLookup(q, Json(200, [valid |-> TRUE]), sessions, token)
                 /\ UNCHANGED users
    /\ UNCHANGED <<nextId, sessions, avatarFiles, now, config, inflight, resetHistory>>

-----------------------------------------------------------------------------
(* GET /api/users *)
GetUsers(sid) ==
    LET q == [op |-> "users.list", sid |-> sid] IN
    /\ IF ~requireAuth(sessions, sid)
       THEN Send(q, Unauthorized, sessions)
       ELSE Send(q, Json(200, [users |-> getAllUsers(users)]), sessions)
    /\ UNCHANGED <<users, nextId, sessions, avatarFiles, now, config, inflight, resetHistory>>

(* GET /api/users/:id *)
GetUserById(sid, id) ==
    LET q == [op |-> "users.get", sid |-> sid, id |-> id]
        found == getUser(users, id)
    IN
    /\ IF ~requireAuth(sessions, sid)
       THEN Send(q, Unauthorized, sessions)
       ELSE IF found = None
       THEN Send(q, UserNotFound, sessions)
       ELSE Send(q, Json(200, [user |-> found[1]]), sessions)
    /\ UNCHANGED <<users, nextId, sessions, avatarFiles, now, config, inflight, resetHistory>>

(* POST /api/users *)
CreateUser(sid, data) ==
    LET q == [op |-> "users.create", sid |-> sid, body |-> data] IN
    /\ IF ~requireAuth(sessions, sid)
       THEN /\ Send(q, Unauthorized, sessions)
            /\ UNCHANGED <<users, nextId>>
       ELSE IF ~insertUserSchema(data)
       THEN /\ Send(q, ZodError, sessions)
            /\ UNCHANGED <<users, nextId>>
       ELSE IF getUserByEmail(users, data.email) # None
       THEN /\ Send(q, EmailTaken, sessions)
            /\ UNCHANGED <<users, nextId>>
       ELSE IF /\ data.externalId # None
               /\ ~isExternalIdUnique(users, data.externalId[1], None)
       THEN /\ Send(q, ExternalIdTaken, sessions)
            /\ UNCHANGED <<users, nextId>>
       ELSE /\ nextId <= MaxUsers
            /\ users' = createUser(users, nextId,
                                   [insertUserParsed(data) EXCEPT
                                       !.password = Hash(data.password)], now)
            /\ nextId' = nextId + 1
            /\ Send(q, Json(201, [user |-> excludePassword(users'[nextId])]), sessions)
    /\ UNCHANGED <<sessions, avatarFiles, now, config, inflight, resetHistory>>

(* PATCH /api/users/:id *)
UpdateUser(sid, id, body) ==
    LET q == [op |-> "users.update", sid |-> sid, id |-> id, body |-> body]
        data == updateUserSchema(body)
    IN
    /\ IF ~requireAuth(sessions, sid)
       THEN /\ Send(q, Unauthorized, sessions)
            /\ UNCHANGED users
       ELSE IF /\ "externalId" \in DOMAIN data
               /\ data.externalId # None
               /\ ~isExternalIdUnique(users, data.externalId[1], Some(id))
       THEN /\ Send(q, ExternalIdTaken, sessions)
            /\ UNCHANGED users
       ELSE IF id \notin DOMAIN users
       THEN /\ Send(q, UserNotFound, sessions)
            /\ UNCHANGED users
       ELSE IF UpdateViolatesUnique(users, id, data)
       THEN /\ Send(q, ServerError("Erro ao atualizar usuario"), sessions)
            /\ UNCHANGED users
       ELSE /\ users' = updateUser(users, id, data)
            /\ Send(q, Json(200, [user |-> excludePassword(users'[id])]), sessions)
    /\ UNCHANGED <<nextId, sessions, avatarFiles, now, config, inflight, resetHistory>>

(* DELETE /api/users/:id *)
DeleteUser(sid, id) ==
    LET q == [op |-> "users.delete", sid |-> sid, id |-> id] IN
    /\ IF ~requireAuth(sessions, sid)
       THEN /\ Send(q, Unauthorized, sessions)
            /\ UNCHANGED <<users, avatarFiles>>
       ELSE IF id \notin DOMAIN users
       THEN /\ Send(q, UserNotFound, sessions)
            /\ UNCHANGED <<users, avatarFiles>>
       ELSE /\ avatarFiles' = deleteAvatarFile(avatarFiles, users[id].avatar)
            /\ users' = deleteUser(users, id)
            /\ Send(q, Json(200, [success |-> TRUE]), sessions)
    /\ UNCHANGED <<nextId, sessions, now, config, inflight, resetHistory>>

(* POST /api/users/:id/avatar *)
UploadAvatar(sid, id, file) ==
    LET q == [op |-> "avatar.upload", sid |-> sid, id |-> id, file |-> file] IN
    /\ IF ~requireAuth(sessions, sid)
       THEN /\ Send(q, Unauthorized, sessions)
            /\ UNCHANGED <<users, avatarFiles>>
       ELSE IF file = None
       THEN /\ Send(q, Json(400, [error |-> "Nenhum arquivo enviado"]), sessions)
            /\ UNCHANGED <<users, avatarFiles>>
       ELSE IF id \notin DOMAIN users
       THEN /\ Send(q, UserNotFound, sessions)
            /\ UNCHANGED <<users, avatarFiles>>
       ELSE /\ avatarFiles' =
                 deleteAvatarFile(avatarFiles, users[id].avatar) \cup {AvatarUrl(id)}
            /\ users' = updateUser(users, id, [avatar |-> Some(AvatarUrl(id))])
            /\ Send(q, Json(200, [user |-> excludePassword(users'[id]),
                                  avatar |-> AvatarUrl(id)]), sessions)
    /\ UNCHANGED <<nextId, sessions, now, config, inflight, resetHistory>>

(* DELETE /api/users/:id/avatar *)
DeleteAvatar(sid, id) ==
    LET q == [op |-> "avatar.delete", sid |-> sid, id |-> id] IN
    /\ IF ~requireAuth(sessions, sid)
       THEN /\ Send(q, Unauthorized, sessions)
            /\ UNCHANGED <<users, avatarFiles>>
       ELSE IF id \notin DOMAIN users
       THEN /\ Send(q, UserNotFound, sessions)
            /\ UNCHANGED <<users, avatarFiles>>
       ELSE /\ avatarFiles' = deleteAvatarFile(avatarFiles, users[id].avatar)
            /\ users' = updateUser(users, id, [avatar |-> None])
            /\ Send(q, Json(200, [user |-> excludePassword(users'[id])]), sessions)
    /\ UNCHANGED <<nextId, sessions, now, config, inflight, resetHistory>>

-----------------------------------------------------------------------------
(* A request under /api/ that has arrived and whose handler answers with   *)
(* res.json: the routes with a path parameter take whatever text the       *)
(* client puts there.                                                      *)
Methods == {"GET", "POST", "PUT", "PATCH", "DELETE", "OPTIONS"}

Arrived(sid, method, path, version, data) ==
    [op |-> "arrived", sid |-> sid, method |-> method, path |-> path,
     version |-> version, body |-> data.body, query |-> data.query]

\* what the handler of the request answers while no user is registered
HandlerAnswer(q) ==
    IF Len(q.path) >= 3 /\ q.path[2] = Word("auth", 4)
    THEN CASE q.path[3] = Word("login", 5) ->
                IF {"email", "password"} \subseteq DOMAIN q.body
                THEN BadCredentials ELSE ZodError
           [] q.path[3] = Word("reset-password", 14) ->
                IF {"token", "password"} \subseteq DOMAIN q.body
                THEN TokenInvalidOrExpired ELSE ZodError
           [] OTHER -> Json(200, [valid |-> FALSE])
    ELSE IF requireAuth(sessions, q.sid) THEN UserNotFound ELSE Unauthorized

ApiRequest ==
    LET q == [req EXCEPT !.op = "api"]
        out == HandlerAnswer(q)
    IN
    /\ req.op = "arrived"
    /\ IF Eligible(q.method, q.path)
       THEN ReplyWithEvent(q, out, sessions, q.version)
       ELSE PlainJson(q, out)
    /\ UNCHANGED <<users, nextId, sessions, avatarFiles, now, config, inflight, resetHistory>>

-----------------------------------------------------------------------------
(* The clock advances between requests, by an hour or just over an hour *)
TickSteps == {ResetTokenTTL, ResetTokenTTL + 1}

Tick(d) ==
    /\ now + d <= MaxHours * ResetTokenTTL + 1
    /\ now' = now + d
    /\ req' = Idle
    /\ handlerOut' = NoResponse
    /\ res' = NoResponse
    /\ dispatch' = NoDispatch
    /\ mail' = None
    /\ lookup' = None
    /\ UNCHANGED <<users, nextId, sessions, avatarFiles, config, inflight, resetHistory>>

-----------------------------------------------------------------------------
(* POST /api/auth/reset-password followed await by await.  The handler of  *)
(* connection c runs up to its next await in one step; between two steps   *)
(* the handlers of other connections run.  A repository call ends "ok" or  *)
(* throws ("error"), which the catch block answers with 500.               *)

DbOutcomes == {"ok", "error"}

\* a step that sends no response
Quiet ==
    /\ req' = Idle
    /\ handlerOut' = NoResponse
    /\ res' = NoResponse
    /\ dispatch' = NoDispatch
    /\ mail' = None

NoReply == Quiet /\ lookup' = None

Suspend(c, q, pc, userId) ==
    inflight' = [inflight EXCEPT ![c] = [pc |-> pc, q |-> q, userId |-> userId]]

Finish(c) == inflight' = [inflight EXCEPT ![c] = NotRunning]

\* parse, length check, getUserByResetToken and the tests on the row found
ResetLookup(c, sid, data) ==
    LET q == [op |-> "reset", sid |-> sid, body |-> data] IN
    /\ inflight[c] = NotRunning
    /\ IF ~newPasswordSchema(data)
       THEN /\ Send(q, ZodError, sessions)
            /\ UNCHANGED inflight
       ELSE LET token == data.token[1]
                rows == RowsByResetToken(users, token)
            IN
            IF token = EmptyToken \/ TokenLength(token) # TokenLen
            THEN /\ Send(q, TokenInvalid, sessions)
                 /\ UNCHANGED inflight
            ELSE IF rows = {}
            THEN /\ SendAfterLookup(q, TokenInvalidOrExpired, sessions, token)
                 /\ UNCHANGED inflight
            ELSE \E id \in rows :
                 LET user == users[id] IN
                 IF user.resetToken = None \/ user.resetToken # Some(token)
                 THEN /\ SendAfterLookup(q, TokenInvalid, sessions, token)
                      /\ UNCHANGED inflight
                 ELSE IF TokenExpired(user, now)
                 THEN /\ Suspend(c, q, "clearExpired", id)
                      /\ Quiet /\ lookup' = Some(token)
                 ELSE /\ Suspend(c, q, "updatePassword", id)
                      /\ Quiet /\ lookup' = Some(token)
    /\ UNCHANGED <<users, nextId, sessions, avatarFiles, now, config, resetHistory>>

\* await storage.clearResetToken(user.id) of the expired branch, then 400
ResetClearExpired(c, outcome) ==
    /\ inflight[c].pc = "clearExpired"
    /\ IF outcome = "ok"
       THEN /\ users' = clearResetToken(users, inflight[c].userId)
            /\ Send(inflight[c].q, TokenExpiredReply, sessions)
       ELSE /\ Send(inflight[c].q, ServerError("Erro ao redefinir senha"), sessions)
            /\ UNCHANGED users
    /\ Finish(c)
    /\ UNCHANGED <<nextId, sessions, avatarFiles, now, config, resetHistory>>

\* await bcrypt.hash(...) and await storage.updatePassword(user.id, hash)
ResetUpdatePassword(c, outcome) ==
    LET q == inflight[c].q IN
    /\ inflight[c].pc = "updatePassword"
    /\ IF outcome = "ok"
       THEN /\ users' = updatePassword(users, inflight[c].userId,
                                       Hash(q.body.password))
            /\ consumed' = consumed \cup {q.body.token[1]}
            /\ Suspend(c, q, "clearResetToken", inflight[c].userId)
            /\ NoReply
       ELSE /\ Send(q, ServerError("Erro ao redefinir senha"), sessions)
            /\ Finish(c)
            /\ UNCHANGED <<users, consumed>>
    /\ UNCHANGED <<nextId, sessions, avatarFiles, now, config, nextToken>>

\* await storage.clearResetToken(user.id) after the password update, then 200
ResetClearToken(c, outcome) ==
    /\ inflight[c].pc = "clearResetToken"
    /\ IF outcome = "ok"
       THEN /\ users' = clearResetToken(users, inflight[c].userId)
            /\ Send(inflight[c].q, ResetDone, sessions)
       ELSE /\ Send(inflight[c].q, ServerError("Erro ao redefinir senha"), sessions)
            /\ UNCHANGED users
    /\ Finish(c)
    /\ UNCHANGED <<nextId, sessions, avatarFiles, now, config, resetHistory>>

-----------------------------------------------------------------------------
(* The password-reset lifecycle: registration, forgot-password, token      *)
(* validation and consumption, and the clock.  The users register before   *)
(* the clock first advances: the time of registration is kept in           *)
(* lastActive only, which none of the reset endpoints reads.               *)

ResetSIDs == SIDs
ResetRegisterBodies ==
    [email : {"a@b.com", "c@d.com"}, password : {"secret1"}, externalId : {None}]
ForgotBodies == [email : Emails]
NewPasswordBodies ==
    [token : {None} \cup {Some(t) : t \in RequestTokens}, password : {"newpass1"}]
        \cup [token : {Some(GenToken(k)) : k \in 0..(MaxTokens - 1)},
              password : {"short"}]

ResetInit == Init /\ webhookUrl = None

ResetNext ==
    \/ now = 0 /\ \E sid \in ResetSIDs, data \in ResetRegisterBodies : Register(sid, data)
    \/ \E sid \in ResetSIDs, data \in ForgotBodies, delivery \in MailOutcomes :
          ForgotPassword(sid, data, delivery)
    \/ \E sid \in ResetSIDs, data \in NewPasswordBodies : ResetPassword(sid, data)
    \/ \E sid \in ResetSIDs, token \in RequestTokens : ValidateToken(sid, token)
    \/ \E d \in TickSteps : Tick(d)

ResetSpec == ResetInit /\ [][ResetNext]_vars

-----------------------------------------------------------------------------
(* Sessions, user administration, avatars and the webhook dispatcher.      *)

InsertBodies ==
    [email : {"a@b.com", "not-an-email"}, password : {"secret1", "short"},
     externalId : {None} \cup {Some(x) : x \in ExternalIds}]
LoginBodies ==
    [email : {"a@b.com", "not-an-email"}, password : {"secret1", "newpass1"}]
UpdateBodies ==
    [email : {"a@b.com", "not-an-email"}]
        \cup [externalId : {None} \cup {Some(x) : x \in ExternalIds}]
Files == {None, Some("image/png")}

AdminInit == Init /\ ~emailConfigured

Next ==
    \/ \E sid \in SIDs, data \in InsertBodies : Register(sid, data)
    \/ \E sid \in SIDs, data \in LoginBodies : Login(sid, data)
    \/ \E sid \in SIDs : Logout(sid)
    \/ \E sid \in SIDs : Me(sid)
    \/ \E sid \in SIDs : GetUsers(sid)
    \/ \E sid \in SIDs, id \in UserIds : GetUserById(sid, id)
    \/ \E sid \in SIDs, data \in InsertBodies : CreateUser(sid, data)
    \/ \E sid \in SIDs, id \in UserIds, data \in UpdateBodies : UpdateUser(sid, id, data)
    \/ \E sid \in SIDs, id \in UserIds : DeleteUser(sid, id)
    \/ \E sid \in SIDs, id \in UserIds, file \in Files : UploadAvatar(sid, id, file)
    \/ \E sid \in SIDs, id \in UserIds : DeleteAvatar(sid, id)

Spec == AdminInit /\ [][Next]_vars

-----------------------------------------------------------------------------
(* Credentials: registration, login, logout, the current user, and a       *)
(* password reset between two logins.                                      *)

AuthRegisterBodies ==
    [email : {"a@b.com", "not-an-email"}, password : {"secret1", "short"},
     externalId : {None}]

AuthInit == Init /\ webhookUrl = None

AuthNext ==
    \/ \E sid \in SIDs, data \in AuthRegisterBodies : Register(sid, data)
    \/ \E sid \in SIDs, data \in LoginBodies : Login(sid, data)
    \/ \E sid \in SIDs : Logout(sid)
    \/ \E sid \in SIDs : Me(sid)
    \/ \E sid \in SIDs, delivery \in MailOutcomes :
          ForgotPassword(sid, [email |-> "a@b.com"], delivery)
    \/ \E sid \in SIDs, token \in {GenToken(0), UnknownHexToken} :
          ResetPassword(sid, [token |-> Some(token), password |-> "newpass1"])
    \/ \E d \in TickSteps : Tick(d)

AuthSpec == AuthInit /\ [][AuthNext]_vars

-----------------------------------------------------------------------------
(* The reset of a password with its awaits visible: one user, tokens       *)
(* issued to that user, reset-password on several connections, and         *)
(* validate-token and login running between the awaits.                    *)

StepRegisterBody == [email |-> "a@b.com", password |-> "secret1", externalId |-> None]
StepResetBodies ==
    [token : {Some(GenToken(k)) : k \in 0..(MaxTokens - 1)},
     password : {"newpass1", "secret1"}]
StepLoginBodies == [email : {"a@b.com"}, password : {"secret1", "newpass1"}]

StepInit == Init /\ webhookUrl = None /\ emailConfigured

StepNext ==
    \/ now = 0 /\ \E sid \in SIDs : Register(sid, StepRegisterBody)
    \/ \E sid \in SIDs : ForgotPassword(sid, [email |-> "a@b.com"], "sent")
    \/ \E c \in Clients, sid \in SIDs, data \in StepResetBodies : ResetLookup(c, sid, data)
    \/ \E c \in Clients, outcome \in DbOutcomes : ResetClearExpired(c, outcome)
    \/ \E c \in Clients, outcome \in DbOutcomes : ResetUpdatePassword(c, outcome)
    \/ \E c \in Clients, outcome \in DbOutcomes : ResetClearToken(c, outcome)
    \/ \E sid \in SIDs, k \in 0..(MaxTokens - 1) : ValidateToken(sid, GenToken(k))
    \/ \E sid \in SIDs, data \in StepLoginBodies : Login(sid, data)
    \/ \E d \in TickSteps : Tick(d)

StepSpec == StepInit /\ [][StepNext]_vars

-----------------------------------------------------------------------------
(* The event names of the webhook payloads, for the paths of up to         *)
(* MaxSegments segments after /api/.                                       *)

PathSegments ==
    {Word("users", 5), Word("avatar", 6), Word("login", 5),
     HexDash(UuidLen), Digits(2), Digits(2) \o Word("abc", 3)}

RECURSIVE PathsOfLength(_)
PathsOfLength(n) ==
    IF n = 0 THEN {<< >>}
    ELSE {Append(p, seg) : p \in PathsOfLength(n - 1), seg \in PathSegments}

ApiPaths ==
    {<<Word("api", 3)>> \o p :
        p \in UNION {PathsOfLength(n) : n \in 1..MaxSegments}}

\* paths the dispatcher lets through
OtherPaths ==
    {<<Word("health", 6)>>, <<Word("api", 3)>>, <<Word("socket.io", 9)>>,
     <<Word("api", 3), Word("socket.io", 9)>>,
     <<Word("api", 3), Word("users", 5), Word("socket.io", 9)>>}

\* routes that take a password or a reset token, and POST /api/users
Routes ==
    {[method |-> "POST",
      path |-> <<Word("api", 3), Word("auth", 4), Word("login", 5)>>],
     [method |-> "POST",
      path |-> <<Word("api", 3), Word("auth", 4), Word("reset-password", 14)>>],
     [method |-> "GET",
      path |-> <<Word("api", 3), Word("auth", 4), Word("validate-token", 14),
                 HexDash(TokenLen)>>],
     [method |-> "POST", path |-> <<Word("api", 3), Word("users", 5)>>]}

ForgedEvent == [name |-> <<Word("forged", 6)>>, suffix |-> ""]

NoData == [body |-> NoFields, query |-> NoFields]

\* what a client puts in the JSON body and in the query string
RequestData ==
    {NoData,
     [body |-> [event |-> ForgedEvent, userId |-> Some(99), timestamp |-> 7],
      query |-> NoFields],
     [body |-> NoFields, query |-> [event |-> ForgedEvent]],
     [body |-> [email |-> "a@b.com", password |-> "secret1"], query |-> NoFields],
     [body |-> [token |-> GenToken(0), password |-> "newpass1"], query |-> NoFields]}

EventInit ==
    /\ StoreInit
    /\ ~emailConfigured
    /\ req \in {Arrived(sid, method, path, version, NoData) :
                  sid \in SIDs, method \in Methods,
                  path \in ApiPaths \cup OtherPaths,
                  version \in DispatcherVersions}
              \cup
              {Arrived(sid, route.method, route.path, version, data) :
                  sid \in SIDs, route \in Routes,
                  version \in DispatcherVersions, data \in RequestData}

EventNext == ApiRequest

EventSpec == EventInit /\ [][EventNext]_vars

-----------------------------------------------------------------------------
(* The token columns of a user record under every operation that writes    *)
(* the record: the reset endpoints, and user creation and update with      *)
(* bodies that name the token columns.                                     *)

RecordRegisterBody == [email |-> "a@b.com", password |-> "secret1", externalId |-> None]
RecordInsertBodies ==
    {[email |-> "c@d.com", password |-> "secret1", externalId |-> None,
      resetToken |-> Some(UnknownHexToken)],
     [email |-> "c@d.com", password |-> "secret1", externalId |-> None,
      resetTokenExpiry |-> Some(ResetTokenTTL)]}
RecordUpdateBodies ==
    {[resetToken |-> Some(UnknownHexToken)],
     [resetToken |-> None],
     [resetTokenExpiry |-> None],
     [email |-> "c@d.com", resetTokenExpiry |-> Some(ResetTokenTTL)]}
RecordTokens ==
    {GenToken(k) : k \in 0..(MaxTokens - 1)} \cup {UnknownHexToken, NonHexToken, ShortToken}

RecordInit == Init /\ webhookUrl = None /\ emailConfigured

RecordNext ==
    \/ now = 0 /\ \E sid \in SIDs : Register(sid, RecordRegisterBody)
    \/ \E sid \in SIDs, email \in {"a@b.com", "c@d.com"}, delivery \in MailOutcomes :
          ForgotPassword(sid, [email |-> email], delivery)
    \/ \E sid \in SIDs, token \in RecordTokens : ValidateToken(sid, token)
    \/ \E sid \in SIDs, token \in RecordTokens :
          ResetPassword(sid, [token |-> Some(token), password |-> "newpass1"])
    \/ \E sid \in SIDs, data \in RecordInsertBodies : CreateUser(sid, data)
    \/ \E sid \in SIDs, id \in UserIds, data \in RecordUpdateBodies :
          UpdateUser(sid, id, data)
    \/ \E d \in TickSteps : Tick(d)

RecordSpec == RecordInit /\ [][RecordNext]_vars

-----------------------------------------------------------------------------
(* POST /api/users and PATCH /api/users/:id step by step: the handler of   *)
(* one client is suspended between its uniqueness checks and its write     *)
(* while the handler of another client runs.                               *)

\* requireAuth, parse, getUserByEmail, isExternalIdUnique
CreateCheck(c, sid, data) ==
    LET q == [op |-> "users.create", sid |-> sid, body |-> data] IN
    /\ inflight[c] = NotRunning
    /\ IF ~requireAuth(sessions, sid)
       THEN /\ Send(q, Unauthorized, sessions)
            /\ UNCHANGED inflight
       ELSE IF ~insertUserSchema(data)
       THEN /\ Send(q, ZodError, sessions)
            /\ UNCHANGED inflight
       ELSE IF getUserByEmail(users, data.email) # None
       THEN /\ Send(q, EmailTaken, sessions)
            /\ UNCHANGED inflight
       ELSE IF /\ data.externalId # None
               /\ ~isExternalIdUnique(users, data.externalId[1], None)
       THEN /\ Send(q, ExternalIdTaken, sessions)
            /\ UNCHANGED inflight
       ELSE /\ Suspend(c, q, "createUser", 0)
            /\ NoReply
    /\ UNCHANGED <<users, nextId, sessions, avatarFiles, now, config, resetHistory>>

\* await bcrypt.hash, await storage.createUser, then 201; an insert the
\* unique indexes refuse throws, and the catch answers 500
CreateInsert(c) ==
    LET q == inflight[c].q
        row == [insertUserParsed(q.body) EXCEPT !.password = Hash(q.body.password)]
    IN
    /\ inflight[c].pc = "createUser"
    /\ IF InsertViolatesUnique(users, row)
       THEN /\ Send(q, ServerError("Erro ao criar usuario"), sessions)
            /\ UNCHANGED <<users, nextId>>
       ELSE /\ nextId <= MaxUsers + MaxCreated
            /\ users' = createUser(users, nextId, row, now)
            /\ nextId' = nextId + 1
            /\ Send(q, Json(201, [user |-> excludePassword(users'[nextId])]), sessions)
    /\ Finish(c)
    /\ UNCHANGED <<sessions, avatarFiles, now, config, resetHistory>>

\* requireAuth, parse, isExternalIdUnique(externalId, id)
PatchCheck(c, sid, id, body) ==
    LET q == [op |-> "users.update", sid |-> sid, id |-> id, body |-> body]
        data == updateUserSchema(body)
    IN
    /\ inflight[c] = NotRunning
    /\ IF ~requireAuth(sessions, sid)
       THEN /\ Send(q, Unauthorized, sessions)
            /\ UNCHANGED inflight
       ELSE IF /\ "externalId" \in DOMAIN data
               /\ data.externalId # None
               /\ ~isExternalIdUnique(users, data.externalId[1], Some(id))
       THEN /\ Send(q, ExternalIdTaken, sessions)
            /\ UNCHANGED inflight
       ELSE /\ Suspend(c, q, "updateUser", id)
            /\ NoReply
    /\ UNCHANGED <<users, nextId, sessions, avatarFiles, now, config, resetHistory>>

\* await storage.updateUser, then 404 or the user; an update the unique
\* indexes refuse throws, and the catch answers 500
PatchWrite(c) ==
    LET q == inflight[c].q
        id == inflight[c].userId
        data == updateUserSchema(q.body)
    IN
    /\ inflight[c].pc = "updateUser"
    /\ IF id \notin DOMAIN users
       THEN /\ Send(q, UserNotFound, sessions)
            /\ UNCHANGED users
       ELSE IF UpdateViolatesUnique(users, id, data)
       THEN /\ Send(q, ServerError("Erro ao atualizar usuario"), sessions)
            /\ UNCHANGED users
       ELSE /\ users' = updateUser(users, id, data)
            /\ Send(q, Json(200, [user |-> excludePassword(users'[id])]), sessions)
    /\ Finish(c)
    /\ UNCHANGED <<nextId, sessions, avatarFiles, now, config, resetHistory>>


RaceInsertBodies ==
    [email : {"c@d.com", "e@f.com"}, password : {"secret1"},
     externalId : {Some(x) : x \in ExternalIds}]
RaceUpdateBodies == [externalId : {None} \cup {Some(x) : x \in ExternalIds}]

RaceInit == Init /\ webhookUrl = None /\ ~emailConfigured

RaceNext ==
    \/ \E sid \in SIDs : Register(sid, StepRegisterBody)
    \/ \E c \in Clients, sid \in SIDs, data \in RaceInsertBodies :
          CreateCheck(c, sid, data)
    \/ \E c \in Clients : CreateInsert(c)
    \/ \E c \in Clients, sid \in SIDs, id \in 1..(MaxUsers + MaxCreated),
          body \in RaceUpdateBodies : PatchCheck(c, sid, id, body)
    \/ \E c \in Clients : PatchWrite(c)

RaceSpec == RaceInit /\ [][RaceNext]_vars

-----------------------------------------------------------------------------
(* POST /api/auth/forgot-password step by step: the generic response is    *)
(* sent after the lookup by email, and the handler goes on to its awaits.  *)

\* parse, getUserByEmail, res.json, the two early returns, token and expiry
ForgotLookup(c, sid, data) ==
    LET q == [op |-> "forgot", sid |-> sid, body |-> data]
        found == getUserByEmail(users, data.email)
    IN
    /\ inflight[c] = NotRunning
    /\ IF ~resetPasswordSchema(data)
       THEN /\ Send(q, ZodError, sessions)
            /\ UNCHANGED <<inflight, nextToken>>
       ELSE /\ Send(q, ForgotPasswordReply(found), sessions)
            /\ IF found = None \/ ~emailConfigured
               THEN UNCHANGED <<inflight, nextToken>>
               ELSE /\ nextToken < MaxTokens
                    /\ nextToken' = nextToken + 1
                    /\ inflight' = [inflight EXCEPT ![c] =
                          [pc |-> "setResetToken", q |-> q, responded |-> TRUE,
                           token |-> GenToken(nextToken),
                           expiry |-> now + ResetTokenTTL]]
    /\ UNCHANGED <<users, nextId, sessions, avatarFiles, now, config, consumed>>

\* await storage.setResetToken; when it throws, the catch calls
\* res.status(500).json on the response that was already sent: the wrapper
\* runs again and nothing more reaches the client
ForgotSetToken(c, outcome) ==
    LET q == inflight[c].q IN
    /\ inflight[c].pc = "setResetToken"
    /\ IF outcome = "ok"
       THEN /\ users' = setResetToken(users, q.body.email, inflight[c].token,
                                      inflight[c].expiry)
            /\ inflight' = [inflight EXCEPT ![c].pc = "sendPasswordResetEmail"]
            /\ NoReply
       ELSE /\ req' = q
            /\ handlerOut' = ServerError("Erro ao processar solicitacao")
            /\ res' = NoResponse
            /\ \E fetched \in FetchOutcomes :
                  dispatch' = dispatchWebhook(webhookUrl,
                                 [request |-> q, userId |-> sessions[q.sid]], fetched)
            /\ mail' = None
            /\ lookup' = None
            /\ Finish(c)
            /\ UNCHANGED users
    /\ UNCHANGED <<nextId, sessions, avatarFiles, now, config, resetHistory>>

\* await sendPasswordResetEmail: a failed delivery is only logged
ForgotSendMail(c, delivery) ==
    /\ inflight[c].pc = "sendPasswordResetEmail"
    /\ req' = Idle
    /\ handlerOut' = NoResponse
    /\ res' = NoResponse
    /\ dispatch' = NoDispatch
    /\ mail' = Some([to |-> inflight[c].q.body.email, token |-> inflight[c].token,
                     outcome |-> delivery])
    /\ lookup' = None
    /\ Finish(c)
    /\ UNCHANGED <<users, nextId, sessions, avatarFiles, now, config, resetHistory>>

ForgotNext ==
    \/ now = 0 /\ \E sid \in SIDs : Register(sid, StepRegisterBody)
    \/ \E c \in Clients, sid \in SIDs, email \in Emails :
          ForgotLookup(c, sid, [email |-> email])
    \/ \E c \in Clients, outcome \in DbOutcomes : ForgotSetToken(c, outcome)
    \/ \E c \in Clients, delivery \in MailOutcomes : ForgotSendMail(c, delivery)
    \/ \E d \in TickSteps : Tick(d)

ForgotSpec == StepInit /\ [][ForgotNext]_vars

-----------------------------------------------------------------------------
(* Vocabulary of the properties *)

TokenRequestOps == {"reset", "validate"}

\* the token a reset-password or validate-token request bears, if any
TokenOf(q) == IF q.op = "reset" THEN q.body.token ELSE Some(q.token)

\* the request passes the schema of its endpoint
SchemaValid(q) == q.op = "reset" => newPasswordSchema(q.body)

\* reset-password answered 400, validate-token answered valid=false
Rejected(q, r) ==
    IF q.op = "reset" THEN r.status = 400 ELSE r.body.valid = FALSE

\* the step changed no stored password
PasswordsUnchanged ==
    /\ DOMAIN users' = DOMAIN users
    /\ \A id \in DOMAIN users : users'[id].password = users[id].password

\* the tokens forgot-password has issued so far
IssuedTokens == {GenToken(k) : k \in 0..(nextToken - 1)}

Holders(table, token) == {id \in DOMAIN table : table[id].resetToken = Some(token)}

-----------------------------------------------------------------------------
(* C1: once reset-password has succeeded with a token, every later         *)
(* reset-password or validate-token request bearing that token is rejected *)
(* (400, or valid=false) and changes no stored password.                   *)
SingleUseToken ==
    [][ ( /\ req'.op \in TokenRequestOps
          /\ TokenOf(req') # None
          /\ TokenOf(req')[1] \in consumed )
        => (Rejected(req', res') /\ PasswordsUnchanged) ]_vars

\* a well-formed reset-password request reuses a spent token and gets 400
SpentTokenReused ==
    /\ req.op = "reset"
    /\ req.body.password = "newpass1"
    /\ req.body.token # None
    /\ req.body.token[1] \in consumed
    /\ res.status = 400

(* C2: a repeated forgot-password overwrites the stored token and expiry   *)
(* of the user, and from then on the previous token is rejected by         *)
(* validate-token and reset-password, its own expiry not yet elapsed.      *)
NewTokenSupersedesOld ==
    [][ /\ ( req'.op = "forgot" /\ emailConfigured )
            => \A id \in DOMAIN users :
                 ( users[id].email = req'.body.email /\ users[id].resetToken # None )
                 => /\ users'[id].resetToken # None
                    /\ users'[id].resetToken # users[id].resetToken
                    /\ users'[id].resetTokenExpiry = Some(now + ResetTokenTTL)
                    /\ Holders(users', users[id].resetToken[1]) = {}
        /\ ( /\ req'.op \in TokenRequestOps
             /\ TokenOf(req') # None
             /\ TokenOf(req')[1] \in IssuedTokens
             /\ Holders(users, TokenOf(req')[1]) = {} )
            => (Rejected(req', res') /\ PasswordsUnchanged) ]_vars

\* before the clock has moved at all, the first token is refused because a
\* second one has replaced it
SupersededTokenRefused ==
    /\ now = 0
    /\ req.op = "reset"
    /\ req.body.password = "newpass1"
    /\ req.body.token = Some(GenToken(0))
    /\ GenToken(0) \notin consumed
    /\ Holders(users, GenToken(1)) # {}
    /\ res.status = 400

(* C3, as stated: a stored token whose expiry has elapsed is rejected by   *)
(* validate-token (valid=false) and by reset-password (400, password       *)
(* unchanged), and the rejection leaves resetToken and resetTokenExpiry of *)
(* the user cleared.                                                       *)
ExpiredTokenRejectedAndCleared ==
    [][ \A id \in DOMAIN users :
          ( /\ req'.op \in TokenRequestOps
            /\ TokenOf(req') # None
            /\ users[id].resetToken = TokenOf(req')
            /\ users[id].resetTokenExpiry # None
            /\ now > users[id].resetTokenExpiry[1] )
          => /\ Rejected(req', res')
             /\ PasswordsUnchanged
             /\ users'[id].resetToken = None
             /\ users'[id].resetTokenExpiry = None ]_vars

(* C3, amended: the same for validate-token and for every reset-password   *)
(* request whose body passes the schema (a password of at least 6          *)
(* characters).                                                            *)
ExpiredTokenOfValidRequestCleared ==
    [][ \A id \in DOMAIN users :
          ( /\ req'.op \in TokenRequestOps
            /\ SchemaValid(req')
            /\ TokenOf(req') # None
            /\ users[id].resetToken = TokenOf(req')
            /\ users[id].resetTokenExpiry # None
            /\ now > users[id].resetTokenExpiry[1] )
          => /\ Rejected(req', res')
             /\ PasswordsUnchanged
             /\ users'[id].resetToken = None
             /\ users'[id].resetTokenExpiry = None ]_vars

\* reset-password has found the token expired
ExpiredTokenSeen ==
    /\ req.op = "reset"
    /\ res = TokenExpiredReply
    /\ \A id \in DOMAIN users : users[id].resetToken = None

(* C4: forgot-password answers every syntactically valid email address     *)
(* with the same status and body, whether a user has that address or not.  *)
ForgotReplyIsGeneric ==
    (req.op = "forgot" /\ IsEmail(req.body.email)) => res = GenericForgotReply

\* an address of no user is asked for while another user is stored
ForgotForUnknownEmail ==
    /\ req.op = "forgot"
    /\ IsEmail(req.body.email)
    /\ getUserByEmail(users, req.body.email) = None
    /\ DOMAIN users # {}
    /\ res.status = 200

-----------------------------------------------------------------------------
ProtectedOps ==
    {"me", "users.list", "users.get", "users.create", "users.update",
     "users.delete", "avatar.upload", "avatar.delete"}

\* the user objects a response body carries
BodyUsers(r) ==
    IF "user" \in DOMAIN r.body THEN {r.body.user}
    ELSE IF "users" \in DOMAIN r.body THEN r.body.users
    ELSE {}

(* C5: a request to a protected endpoint made with no session-to-user      *)
(* mapping is answered 401 and leaves the user table, the avatar files and *)
(* the session store unchanged.                                            *)
SessionGate ==
    [][ (req'.op \in ProtectedOps /\ sessions[req'.sid] = None)
        => /\ res'.status = 401
           /\ UNCHANGED <<users, avatarFiles, sessions>> ]_vars

\* a delete of a stored user arrives without a session and is refused
DeleteWithoutSession ==
    /\ req.op = "users.delete"
    /\ req.id \in DOMAIN users
    /\ sessions[req.sid] = None
    /\ res.status = 401

(* C6: the status and body the client receives are those the handler       *)
(* produced, whether the webhook target is unconfigured, reachable or      *)
(* failing.                                                                *)
WebhookNeverAltersResponse == res = handlerOut

\* the webhook call failed and the client still got the handler's 200
WebhookFailedResponseIntact ==
    /\ webhookUrl # None
    /\ dispatch.state = "failed"
    /\ req.op = "users.list"
    /\ res.status = 200

(* C7: after a registration that register accepted, a login with the same  *)
(* email and password succeeds and returns the same user id.               *)
RegisterThenLoginSucceeds ==
    [][ ( /\ req.op = "register"
          /\ res.status = 200
          /\ req'.op = "login"
          /\ req'.body.email = req.body.email
          /\ req'.body.password = req.body.password )
        => /\ res'.status = 200
           /\ res'.body.user.id = res.body.user.id ]_vars

(* C8: the user object a successful login returns carries no password and  *)
(* no reset token or expiry, also when a reset token is pending for the    *)
(* user at the time of the login.                                          *)
LoginBodyHasNoSensitiveField ==
    (req.op = "login" /\ res.status = 200)
        => /\ "password" \notin DOMAIN res.body.user
           /\ \A f \in (DOMAIN res.body.user) \cap {"resetToken", "resetTokenExpiry"} :
                 res.body.user[f] = None

-----------------------------------------------------------------------------
(* C11: the password overwrite of a reset and the clearing of its token    *)
(* are one update: in no state, also when a repository call fails or       *)
(* another request runs in between, has a reset replaced the password      *)
(* while the token it spent is still stored and usable.                    *)
ResetIsOneUpdate ==
    \A id \in DOMAIN users :
        ( /\ users[id].resetToken # None
          /\ users[id].resetToken[1] \in consumed )
        => TokenExpired(users[id], now)

-----------------------------------------------------------------------------
-----------------------------------------------------------------------------
(* C13: after a successful logout the session mapping is gone: the logout  *)
(* leaves no user under the session identifier, only a successful login or *)
(* registration on that identifier puts one there again, and until then    *)
(* every request presenting it to a protected endpoint or to /api/auth/me  *)
(* is answered 401.                                                        *)
LogoutEndsSession ==
    [][ /\ (req'.op = "logout" /\ res'.status = 200)
            => sessions'[req'.sid] = None
        /\ \A sid \in SIDs :
             (sessions[sid] = None /\ sessions'[sid] # None)
             => /\ req'.op \in {"login", "register"}
                /\ req'.sid = sid
                /\ res'.status = 200
        /\ (req'.op \in ProtectedOps /\ sessions[req'.sid] = None)
            => (res'.status = 401 /\ sessions'[req'.sid] = None) ]_vars

\* /api/auth/me right after the logout of a logged-in user: 401, the user
\* still stored
MeAfterLogout ==
    /\ req.op = "me"
    /\ res.status = 401
    /\ sessions[req.sid] = None
    /\ DOMAIN users # {}

-----------------------------------------------------------------------------
\* the stored row a login body names, and whether the body's password is
\* the one that was hashed into the row
LoginTarget(body) == getUserByEmail(users, body.email)
WrongPassword(body) ==
    LET found == LoginTarget(body)
    IN  IF found = None THEN FALSE ELSE found[1].password # Hash(body.password)

(* C14: for a schema-valid login body, a login with an unknown email and a *)
(* login with a known email and a wrong password get the same status (401) *)
(* and the same error body, and neither creates a session nor updates      *)
(* lastActive.                                                             *)
LoginFailuresAlike ==
    [][ ( /\ req'.op = "login"
          /\ loginSchema(req'.body)
          /\ (LoginTarget(req'.body) = None \/ WrongPassword(req'.body)) )
        => /\ res' = BadCredentials
           /\ UNCHANGED <<users, sessions>> ]_vars

\* after a reset changed the password, a login bearing the password of the
\* registration is refused with the reply an unknown address gets
WrongPasswordRefused ==
    /\ req.op = "login"
    /\ loginSchema(req.body)
    /\ WrongPassword(req.body)
    /\ req.body.password = "secret1"
    /\ res = BadCredentials

-----------------------------------------------------------------------------
\* a stored user has the email of the body, compared as stored
EmailInUse(body) == \E id \in DOMAIN users : users[id].email = body.email

\* an accepted registration leaves the session mapped to the new user
AcceptedRegistrationLogsIn ==
    (req'.op = "register" /\ res'.status = 200)
    => /\ res'.body.user.id \notin DOMAIN users
       /\ res'.body.user.id \in DOMAIN users'
       /\ users'[res'.body.user.id].email = req'.body.email
       /\ sessions'[req'.sid] = Some(res'.body.user.id)

(* C15, as stated: a registration whose email equals the email of an       *)
(* existing user is rejected with the conflict error, creates no user      *)
(* record and establishes no session; an accepted registration leaves the  *)
(* session mapped to the id of the user it created.                        *)
DuplicateEmailIsConflict ==
    [][ /\ (req'.op = "register" /\ EmailInUse(req'.body))
            => /\ res' = EmailTaken
               /\ UNCHANGED <<users, nextId, sessions>>
        /\ AcceptedRegistrationLogsIn ]_vars

(* C15, amended: the same for every registration whose body passes         *)
(* insertUserSchema; a body that fails the schema is answered with the     *)
(* validation error before the email is looked up, and it too creates no   *)
(* user record and establishes no session.                                 *)
DuplicateEmailOfValidBodyIsConflict ==
    [][ /\ (req'.op = "register" /\ EmailInUse(req'.body))
            => /\ res' = (IF insertUserSchema(req'.body) THEN EmailTaken ELSE ZodError)
               /\ UNCHANGED <<users, nextId, sessions>>
        /\ AcceptedRegistrationLogsIn ]_vars

\* a logged-out caller registers an address already stored and is refused
\* with the conflict error, still without a session
DuplicateRegistrationRefused ==
    /\ req.op = "register"
    /\ insertUserSchema(req.body)
    /\ EmailInUse(req.body)
    /\ res = EmailTaken
    /\ sessions[req.sid] = None

-----------------------------------------------------------------------------
\* the states of dispatch in which a call to the webhook target was made
OutboundCall == dispatch.state \in FetchOutcomes

(* C16: with no webhook target configured, the dispatcher makes no         *)
(* outbound call for any request and the response passes through          *)
(* unchanged.                                                              *)
NoTargetNoCall ==
    webhookUrl = None => (~OutboundCall /\ res = handlerOut)

\* a user was deleted with no target configured: 200 and no call
DeletedWithoutTarget ==
    /\ webhookUrl = None
    /\ req.op = "users.delete"
    /\ res.status = 200
    /\ dispatch.state = "not-configured"

-----------------------------------------------------------------------------
\* a segment that is a UUID or purely numeric
IsIdentifier(seg) == IsHexDash36(seg) \/ IsDigits(seg)
IsNoIdentifier(seg) == ~IsIdentifier(seg)

\* the path without /api/ and without its identifier segments, every other
\* segment as it is, and nothing appended
PathWithoutIdentifiers(path) ==
    [name |-> SelectSeq(Tail(path), IsNoIdentifier), suffix |-> ""]

(* C17: for every method and path under /api/, the dispatched event name   *)
(* is the path with the /api/ prefix removed, every segment that is a UUID *)
(* or purely numeric removed wherever it occurs (and no other segment      *)
(* altered), and the remaining '/' replaced by '.'.                        *)
EventNameStripsIdentifiers ==
    ( /\ req.op = "api"
      /\ OutboundCall
      /\ "event" \notin DOMAIN req.body \cup DOMAIN req.query )
    => dispatch.payload.event = PathWithoutIdentifiers(req.path)

-----------------------------------------------------------------------------
\* user id holds the token, and the expiry of the token is later than now
HoldsLiveToken(id, token) ==
    /\ users[id].resetToken = Some(token)
    /\ users[id].resetTokenExpiry # None
    /\ users[id].resetTokenExpiry[1] > now

(* C18: validate-token on a token that is stored and not expired answers   *)
(* valid=true and leaves the user record unchanged, so a validation that   *)
(* follows it answers the same and a reset-password with that token that   *)
(* follows it succeeds.                                                    *)
ValidateIsReadOnly ==
    [][ /\ \A id \in DOMAIN users :
             (req'.op = "validate" /\ HoldsLiveToken(id, req'.token))
             => /\ res' = Json(200, [valid |-> TRUE])
                /\ UNCHANGED users
        /\ ( /\ req.op = "validate"
             /\ res.body.valid
             /\ req'.op = "validate"
             /\ req'.token = req.token )
            => res'.body.valid
        /\ ( /\ req.op = "validate"
             /\ res.body.valid
             /\ req'.op = "reset"
             /\ SchemaValid(req')
             /\ req'.body.token = Some(req.token) )
            => /\ res' = ResetDone
               /\ \E id \in DOMAIN users :
                     /\ users[id].resetToken = Some(req.token)
                     /\ users'[id].password = Hash(req'.body.password) ]_vars

\* the second token issued to a user was validated and is still stored
LiveTokenValidated ==
    /\ req.op = "validate"
    /\ res.body.valid
    /\ req.token = GenToken(1)
    /\ \E id \in DOMAIN users : HoldsLiveToken(id, req.token)

(* C19: a reset-password or validate-token request whose token is empty,   *)
(* missing, or equal to the stored resetToken of no user is reported       *)
(* invalid (400, or valid=false) and leaves every user's password and      *)
(* token fields unchanged.                                                 *)
UnknownTokenRejected ==
    [][ ( /\ req'.op \in TokenRequestOps
          /\ \/ TokenOf(req') = None
             \/ TokenOf(req')[1] = EmptyToken
             \/ Holders(users, TokenOf(req')[1]) = {} )
        => /\ Rejected(req', res')
           /\ DOMAIN users' = DOMAIN users
           /\ \A id \in DOMAIN users :
                 \A f \in SensitiveFields : users'[id][f] = users[id][f] ]_vars

\* a well-formed token of nobody is refused while a user has a token pending
TokenOfNobodyRefused ==
    /\ req.op = "reset"
    /\ req.body.token = Some(UnknownHexToken)
    /\ req.body.password = "newpass1"
    /\ res = TokenInvalidOrExpired
    /\ \E id \in DOMAIN users : users[id].resetToken # None

-----------------------------------------------------------------------------
(* C20: logout requires a session: a logout request that carries no        *)
(* session-to-user mapping is rejected as unauthorized and not answered    *)
(* with success.                                                           *)
LogoutNeedsSession ==
    [][ (req'.op = "logout" /\ sessions[req'.sid] = None)
        => res'.status = 401 ]_vars

-----------------------------------------------------------------------------
\* connection c resumes after bcrypt.hash, and updatePassword replaces the
\* stored password by another
PasswordChangedBy(c) ==
    /\ inflight[c].pc = "updatePassword"
    /\ inflight'[c].pc = "clearResetToken"
    /\ users'[inflight[c].userId].password # users[inflight[c].userId].password

(* C21: under any interleaving of concurrent reset-password requests at    *)
(* their awaits, at most one request bearing a given issued token changes  *)
(* the password: no request changes it with a token with which a request   *)
(* has written a password before.                                          *)
OneResetPerToken ==
    [][ \A c \in Clients :
          PasswordChangedBy(c) => inflight[c].q.body.token[1] \notin consumed ]_vars

-----------------------------------------------------------------------------
\* user id holds the token and the clock stands exactly at its expiry
HoldsTokenAtExpiry(id, token) ==
    /\ users[id].resetToken = token
    /\ users[id].resetTokenExpiry = Some(now)

(* C22: a token is consumable or valid only while its expiry is strictly   *)
(* later than the current time: a lookup at the instant now = expiry       *)
(* treats the token as expired, reports it invalid and clears the token    *)
(* fields.                                                                 *)
ExpiredAtTheInstantOfExpiry ==
    [][ \A id \in DOMAIN users :
          ( /\ req'.op \in TokenRequestOps
            /\ SchemaValid(req')
            /\ TokenOf(req') # None
            /\ HoldsTokenAtExpiry(id, TokenOf(req')) )
          => /\ Rejected(req', res')
             /\ PasswordsUnchanged
             /\ users'[id].resetToken = None
             /\ users'[id].resetTokenExpiry = None ]_vars

\* the syntactic shape of a reset token: 64 characters, all of them hex digits
IsHexChar(ch) == ch \in 0..15

WellFormedToken(t) ==
    /\ TokenLength(t) = TokenLen
    /\ \A i \in 1..Len(t) : IsHexChar(t[i][1])

(* C23: reset-password and validate-token hand a token to
   getUserByResetToken only if it has 64 characters and all of them are hex
   digits. *)
OnlyWellFormedTokensLookedUp ==
    lookup # None => WellFormedToken(lookup[1])

\* the request's path is under /api/ and has no /socket.io in it
UnderApiAndNotRealtime(path) ==
    /\ Len(path) >= 2
    /\ Head(path) = Word("api", 3)
    /\ \A i \in DOMAIN path : path[i] = << >> \/ path[i][1].text # "socket.io"

(* C24: a webhook is dispatched only for a request whose path is under     *)
(* /api/ and does not contain /socket.io; for every other request the      *)
(* response is the handler's own and no outbound call is made.             *)
DispatchOnlyWhenEligible ==
    req.op = "api"
    => /\ OutboundCall => UnderApiAndNotRealtime(req.path)
       /\ ~UnderApiAndNotRealtime(req.path)
             => /\ dispatch = NoDispatch
                /\ res = handlerOut

RealtimePathLetThrough ==
    /\ req.op = "api"
    /\ req.method = "GET"
    /\ req.path = <<Word("api", 3), Word("socket.io", 9)>>
    /\ webhookUrl # None
    /\ res.status # 0
    /\ dispatch = NoDispatch

(* C25: in every dispatched payload the event field is the name derived    *)
(* from the request's method and path and the userId field is the          *)
(* session's user id (null without one), whatever keys the request body,   *)
(* the query or the path parameters contain.                               *)
PayloadEventAndUserIdDerived ==
    (req.op = "api" /\ OutboundCall)
    => /\ dispatch.payload.event = EventName(req.version, req.method, req.path)
       /\ dispatch.payload.userId = sessions[req.sid]

SecretKeys == {"password", "token"}

(* C29: no dispatched payload carries a plaintext password or a reset      *)
(* token of the request: neither the password or token of the body nor     *)
(* the token of the path.                                                  *)
NoSecretInPayload ==
    (req.op = "api" /\ OutboundCall)
    => \A k \in SecretKeys :
          /\ k \in DOMAIN req.body
                => ~(k \in DOMAIN dispatch.payload /\ dispatch.payload[k] = req.body[k])
          /\ k \in DOMAIN RouteParams(req.path)
                => ~(k \in DOMAIN dispatch.payload
                     /\ dispatch.payload[k] = RouteParams(req.path)[k])

(* C26: the request never waits for the webhook call: whenever a call has  *)
(* been launched and has not completed, the client's response has been     *)
(* sent, and it is the response the handler produced.                      *)
ResponseNotJoinedToDispatch ==
    dispatch.state = "pending" => (res # NoResponse /\ res = handlerOut)

RespondedWhileCallPending ==
    /\ webhookUrl # None
    /\ dispatch.state = "pending"
    /\ req.op = "users.list"
    /\ res.status = 200

\* no two user records hold the same non-empty external id
ExternalIdsDistinct(table) ==
    \A a, b \in DOMAIN table :
        (a # b /\ table[a].externalId # None)
        => table[a].externalId # table[b].externalId

\* the write the suspended request q is about to make would give a second
\* record the external id of another
WouldDuplicateExternalId(q) ==
    /\ "externalId" \in DOMAIN q.body
    /\ q.body.externalId # None
    /\ \E other \in DOMAIN users :
          /\ users[other].externalId = q.body.externalId
          /\ q.op = "users.update" => other # q.id

(* C27: under every interleaving of POST /api/users and PATCH              *)
(* /api/users/:id, no two user records hold the same non-empty external    *)
(* id, and a request whose write would make such a duplicate is answered   *)
(* with the external-id conflict error (400).                              *)
ExternalIdUniqueUnderRaces ==
    [][ /\ ExternalIdsDistinct(users')
        /\ \A c \in Clients :
              ( /\ inflight[c].pc \in {"createUser", "updateUser"}
                /\ inflight'[c] = NotRunning
                /\ WouldDuplicateExternalId(inflight[c].q) )
              => res' = ExternalIdTaken ]_vars

\* the forgot-password handler of client c has sent its response and takes
\* its next step
StepAfterResponse(c) ==
    /\ inflight[c].pc \in {"setResetToken", "sendPasswordResetEmail"}
    /\ inflight[c].responded
    /\ inflight'[c] # inflight[c]

(* C28: a handler calls res.json once per request: after forgot-password   *)
(* has sent its generic response, no later step of the same request calls  *)
(* res.json again, whether storing the token or sending the mail fails.    *)
OneResponsePerRequest ==
    [][ \A c \in Clients : StepAfterResponse(c) => handlerOut' = NoResponse ]_vars

(* C30: a stored token stays usable until it is itself consumed, found     *)
(* expired, or superseded by a later issuance: a step that removes or      *)
(* replaces the token a user holds is a forgot-password, or the            *)
(* completion of a reset-password or validate-token request for that very  *)
(* token.                                                                  *)
TokenOutlivesOlderRequests ==
    [][ \A id \in DOMAIN users :
          ( /\ users[id].resetToken # None
            /\ users'[id].resetToken # users[id].resetToken )
          => \/ req'.op = "forgot"
             \/ /\ req'.op \in TokenRequestOps
                /\ TokenOf(req') = users[id].resetToken ]_vars

====
